---- MODULE Spec2Model ----
(***************************************************************************)
(* Model of pkg/common/apply/interface.go: the generic applier whose Apply *)
(* runs Get, then Create on not-found, or compare and Update otherwise.    *)
(* Getter, Client, CompareFunc and the event recorder are collaborators    *)
(* supplied by the caller; three specifications give them three            *)
(* behaviours:                                                             *)
(*   Spec     every collaborator returns any result (object, error);       *)
(*   SpecSeq  one caller re-applying an object against a consistent store;  *)
(*   SpecRace several callers applying the same object concurrently        *)
(*            against a store with atomic, conflict-detecting writes.      *)
(***************************************************************************)
EXTENDS Integers, Sequences, FiniteSets, TLC

\* ---------------------------------------------------------------- bounds
NumSpecs == 2
MaxApplies == 2
NumCallers == 2

\* ---------------------------------------------------------------- values
Names == {"a", "b"}
Kinds == {"ManifestWork", "ManagedCluster"}
Specs == 1..NumSpecs
Callers == 1..NumCallers

\* An object of type T: its metadata name and its content.
Objs == [name : Names, spec : Specs]
\* The zero value of T (a nil pointer).
NilObj == [name |-> "", spec |-> 0]
ObjsOrNil == Objs \cup {NilObj}

NoErr == "nil"
ErrNotFound == "NotFound"
ErrAlreadyExists == "AlreadyExists"
ErrForbidden == "Forbidden"
ErrConflict == "Conflict"
ErrNoAccessor == "ObjectHasNoMeta"
\* The errors a Getter or a Client can return.
ApiErrs == {ErrNotFound, ErrAlreadyExists, ErrForbidden, ErrConflict}
ApiResults == {NoErr} \cup ApiErrs

\* errors.IsNotFound / errors.IsAlreadyExists (both false of a nil error)
IsNotFound(e) == e = ErrNotFound
IsAlreadyExists(e) == e = ErrAlreadyExists

\* What Apply returns: (runtime.Object, bool, error).
Result(obj, changed, e) == [obj |-> obj, changed |-> changed, err |-> e]
NoResult == Result(NilObj, FALSE, NoErr)

\* One call of a collaborator as the applier made it, with what came back.
Call(op, name, arg, other, out, e) ==
    [op |-> op, name |-> name, arg |-> arg, other |-> other, out |-> out, err |-> e]
\* One notification handed to the recorder.
Event(level, reason, about) == [level |-> level, reason |-> reason, about |-> about]

VARIABLES
    kind,      \* the Kind of T, fixed when the applier is built
    pc,        \* pc[c]: where caller c's Apply stands
    required,  \* required[c]: the argument of caller c's Apply
    existing,  \* existing[c]: what Get returned
    err,       \* err[c]: the local variable err
    updated,   \* updated[c]: the local variable updated
    modified,  \* modified[c]: the local variable modified
    ret,       \* ret[c]: what Apply returned (when pc[c] = "done")
    calls,     \* calls[c]: collaborator calls of the current Apply, in order
    events,    \* events[c]: notifications of the current Apply, in order
    store,     \* the external store, one object or none per name
    memo,      \* the comparator's answers so far (it is deterministic)
    prev,      \* prev[c]: the previous Apply of caller c
    before,    \* before[c]: the store when the current Apply began
    napplies   \* napplies[c]: Apply calls caller c has begun

vars == <<kind, pc, required, existing, err, updated, modified, ret, calls, events,
          store, memo, prev, before, napplies>>

NoPrev == [valid |-> FALSE, required |-> NilObj, ret |-> NoResult]

\* NewApplier: nothing is in flight.
InitApplier ==
    /\ kind \in Kinds
    /\ pc = [c \in Callers |-> "idle"]
    /\ required = [c \in Callers |-> NilObj]
    /\ existing = [c \in Callers |-> NilObj]
    /\ err = [c \in Callers |-> NoErr]
    /\ updated = [c \in Callers |-> NilObj]
    /\ modified = [c \in Callers |-> FALSE]
    /\ ret = [c \in Callers |-> NoResult]
    /\ calls = [c \in Callers |-> <<>>]
    /\ events = [c \in Callers |-> <<>>]
    /\ memo = {}
    /\ prev = [c \in Callers |-> NoPrev]
    /\ before = [c \in Callers |-> [n \in Names |-> NilObj]]
    /\ napplies = [c \in Callers |-> 0]

\* ------------------------------------------------------- applier.Apply
\* requiredAccessor.GetName()
GetName(req) == req.name

\* Line 56: the branch taken after Get.
AfterGet(e) == IF IsNotFound(e) THEN "create" ELSE "compare"

\* (mutant) Create is handed the object Get returned.
CreateArg_Existing(req, exist) == exist

\* Line 57: the object handed to Create.
CreateArg(req, exist) == req

\* (mutant) a failed Create returns nil instead of what Create returned.
CreateResult_NilOnFailure(req, actual, createErr) ==
    IF IsAlreadyExists(createErr)
    THEN Result(req, FALSE, NoErr)
    ELSE Result(IF createErr = NoErr THEN actual ELSE NilObj, TRUE, createErr)

\* (mutant) the create branch never reports a change.
CreateResult_Unchanged(req, actual, createErr) ==
    IF IsAlreadyExists(createErr)
    THEN Result(req, FALSE, NoErr)
    ELSE Result(actual, FALSE, createErr)

\* (mutant) already-exists is not absorbed.
CreateResult_ExistsIsError(req, actual, createErr) ==
    Result(actual, TRUE, createErr)

\* Lines 58-67: what Apply returns after Create gave (actual, createErr).
CreateResult(req, actual, createErr) ==
    IF IsAlreadyExists(createErr)
    THEN Result(req, FALSE, NoErr)
    ELSE Result(actual, TRUE, createErr)

\* Lines 58-65: the notifications after Create.
CreateEvents(k, req, actual, createErr) ==
    IF IsAlreadyExists(createErr) THEN <<>>
    ELSE IF createErr = NoErr
         THEN <<Event("Normal", k \o "Created", actual)>>
         ELSE <<Event("Warning", k \o "CreateFailed", req)>>

\* (mutant) the update is attempted whatever the comparator reports.
AfterCompare_AlwaysUpdate(changed) == "update"

\* Line 71: the branch taken after the comparator.
AfterCompare(changed) == IF ~changed THEN "done" ELSE "update"

\* (mutant) the existing object is returned instead of the merged one.
CompareResult_Existing(exist, merged, changed) == Result(exist, changed, NoErr)

\* Lines 71-73: what Apply returns when the comparator reports no change.
CompareResult(exist, merged, changed) == Result(merged, changed, NoErr)

\* (mutant) Update is handed the desired object, not the merged one.
UpdateArg_Required(req, exist, merged) == req

\* Line 75: the object handed to Update.
UpdateArg(req, exist, merged) == merged

\* Lines 76-83: what Apply returns after Update gave (obj, e).
UpdateResult(obj, changed, e) == Result(obj, changed, e)

\* (mutant) the outcome of Update is not looked at before notifying.
UpdateEvents_AlwaysUpdated(k, req, obj, e) ==
    <<Event("Normal", k \o "Updated", obj)>>

\* Lines 76-81: the notification after Update.
UpdateEvents(k, req, obj, e) ==
    IF e # NoErr
    THEN <<Event("Warning", k \o "UpdateFailed", req)>>
    ELSE <<Event("Normal", k \o "Updated", obj)>>

\* Lines 49-54: Apply is entered; meta.Accessor(required) may fail.
ApplyBegin(c, req, accErr) ==
    /\ pc[c] \in {"idle", "done"}
    /\ required' = [required EXCEPT ![c] = req]
    /\ existing' = [existing EXCEPT ![c] = NilObj]
    /\ err' = [err EXCEPT ![c] = accErr]
    /\ updated' = [updated EXCEPT ![c] = NilObj]
    /\ modified' = [modified EXCEPT ![c] = FALSE]
    /\ calls' = [calls EXCEPT ![c] = <<>>]
    /\ events' = [events EXCEPT ![c] = <<>>]
    /\ IF accErr # NoErr
       THEN /\ ret' = [ret EXCEPT ![c] = Result(NilObj, FALSE, accErr)]
            /\ pc' = [pc EXCEPT ![c] = "done"]
       ELSE /\ ret' = [ret EXCEPT ![c] = NoResult]
            /\ pc' = [pc EXCEPT ![c] = "get"]
    /\ UNCHANGED kind

\* Lines 55-56: a.getter.Get returned (obj, e).
ApplyGet(c, obj, e) ==
    /\ pc[c] = "get"
    /\ existing' = [existing EXCEPT ![c] = obj]
    /\ err' = [err EXCEPT ![c] = e]
    /\ calls' = [calls EXCEPT ![c] =
                   Append(@, Call("Get", GetName(required[c]), NilObj, NilObj, obj, e))]
    /\ pc' = [pc EXCEPT ![c] = AfterGet(e)]
    /\ UNCHANGED <<kind, required, updated, modified, ret, events>>

\* Lines 57-67: a.client.Create(required) returned (actual, createErr).
ApplyCreate(c, actual, createErr) ==
    /\ pc[c] = "create"
    /\ calls' = [calls EXCEPT ![c] =
                   Append(@, Call("Create", "", CreateArg(required[c], existing[c]),
                                  NilObj, actual, createErr))]
    /\ events' = [events EXCEPT ![c] =
                   @ \o CreateEvents(kind, required[c], actual, createErr)]
    /\ ret' = [ret EXCEPT ![c] = CreateResult(required[c], actual, createErr)]
    /\ pc' = [pc EXCEPT ![c] = "done"]
    /\ UNCHANGED <<kind, required, existing, err, updated, modified>>

\* Lines 70-73: a.compare(required, existing) returned (merged, modified).
ApplyCompare(c, merged, changed) ==
    /\ pc[c] = "compare"
    /\ calls' = [calls EXCEPT ![c] =
                   Append(@, Call("Compare", "", required[c], existing[c], merged,
                                  IF changed THEN "modified" ELSE "same"))]
    /\ updated' = [updated EXCEPT ![c] = merged]
    /\ modified' = [modified EXCEPT ![c] = changed]
    /\ pc' = [pc EXCEPT ![c] = AfterCompare(changed)]
    /\ ret' = IF AfterCompare(changed) = "done"
              THEN [ret EXCEPT ![c] = CompareResult(existing[c], merged, changed)]
              ELSE ret
    /\ UNCHANGED <<kind, required, existing, err, events>>

\* Lines 75-83: a.client.Update(updated) returned (obj, e).
ApplyUpdate(c, obj, e) ==
    /\ pc[c] = "update"
    /\ calls' = [calls EXCEPT ![c] =
                   Append(@, Call("Update", "",
                                  UpdateArg(required[c], existing[c], updated[c]),
                                  NilObj, obj, e))]
    /\ err' = [err EXCEPT ![c] = e]
    /\ updated' = [updated EXCEPT ![c] = obj]
    /\ events' = [events EXCEPT ![c] = @ \o UpdateEvents(kind, required[c], obj, e)]
    /\ ret' = [ret EXCEPT ![c] = UpdateResult(obj, modified[c], e)]
    /\ pc' = [pc EXCEPT ![c] = "done"]
    /\ UNCHANGED <<kind, required, existing, modified>>

\* ------------------------------------------- Spec: arbitrary collaborators
Init ==
    /\ InitApplier
    /\ store = [n \in Names |-> NilObj]

Begin ==
    /\ \E req \in Objs, accErr \in {NoErr, ErrNoAccessor} : ApplyBegin(1, req, accErr)
    /\ UNCHANGED <<store, memo, prev, before, napplies>>

AnyGet ==
    /\ \E obj \in ObjsOrNil, e \in ApiResults : ApplyGet(1, obj, e)
    /\ UNCHANGED <<store, memo, prev, before, napplies>>

AnyCreate ==
    /\ \E obj \in ObjsOrNil, e \in ApiResults : ApplyCreate(1, obj, e)
    /\ UNCHANGED <<store, memo, prev, before, napplies>>

AnyCompare ==
    /\ \E obj \in ObjsOrNil, b \in BOOLEAN : ApplyCompare(1, obj, b)
    /\ UNCHANGED <<store, memo, prev, before, napplies>>

AnyUpdate ==
    /\ \E obj \in ObjsOrNil, e \in ApiResults : ApplyUpdate(1, obj, e)
    /\ UNCHANGED <<store, memo, prev, before, napplies>>

Next == Begin \/ AnyGet \/ AnyCreate \/ AnyCompare \/ AnyUpdate

Spec == Init /\ [][Next]_vars

\* ------------------------------------------------ collaborators on a store
\* Getter.Get(name) served from the store: the object, or not-found.
StoreGet(name) ==
    IF store[name] = NilObj
    THEN [obj |-> NilObj, err |-> ErrNotFound]
    ELSE [obj |-> store[name], err |-> NoErr]

\* Client.Create(obj) on the store: atomic, already-exists when the name is
\* taken; otherwise the object is stored, unless the store rejects the call.
StoreCreate(obj, rejected) ==
    IF store[obj.name] # NilObj
    THEN [obj |-> NilObj, err |-> ErrAlreadyExists, store |-> store]
    ELSE IF rejected
         THEN [obj |-> NilObj, err |-> ErrForbidden, store |-> store]
         ELSE [obj |-> obj, err |-> NoErr, store |-> [store EXCEPT ![obj.name] = obj]]

\* Client.Update(obj) on the store: atomic, not-found when the name is absent;
\* otherwise the object replaces the stored one, unless the store rejects it.
StoreUpdate(obj, rejected) ==
    IF store[obj.name] = NilObj
    THEN [obj |-> NilObj, err |-> ErrNotFound, store |-> store]
    ELSE IF rejected
         THEN [obj |-> NilObj, err |-> ErrConflict, store |-> store]
         ELSE [obj |-> obj, err |-> NoErr, store |-> [store EXCEPT ![obj.name] = obj]]

\* CompareFunc is a pure function: an answer it gave once it gives again.
Answered(req, exist) == {m \in memo : m.required = req /\ m.existing = exist}
CompareAnswers(req, exist) ==
    IF Answered(req, exist) # {}
    THEN Answered(req, exist)
    ELSE {[required |-> req, existing |-> exist, merged |-> o, modified |-> b] :
             o \in Objs, b \in BOOLEAN}

ClientGet(c) ==
    LET r == StoreGet(GetName(required[c]))
    IN  /\ ApplyGet(c, r.obj, r.err)
        /\ UNCHANGED <<store, memo, prev, before, napplies>>

ClientCreate(c, rejected) ==
    LET r == StoreCreate(CreateArg(required[c], existing[c]), rejected)
    IN  /\ ApplyCreate(c, r.obj, r.err)
        /\ store' = r.store
        /\ UNCHANGED <<memo, prev, before, napplies>>

ClientCompare(c) ==
    \E m \in CompareAnswers(required[c], existing[c]) :
        /\ ApplyCompare(c, m.merged, m.modified)
        /\ memo' = memo \cup {m}
        /\ UNCHANGED <<store, prev, before, napplies>>

ClientUpdate(c, rejected) ==
    LET r == StoreUpdate(UpdateArg(required[c], existing[c], updated[c]), rejected)
    IN  /\ ApplyUpdate(c, r.obj, r.err)
        /\ store' = r.store
        /\ UNCHANGED <<memo, prev, before, napplies>>

\* A caller enters Apply; what its previous Apply returned is kept.
ClientBegin(c, req) ==
    /\ ApplyBegin(c, req, NoErr)
    /\ prev' = [prev EXCEPT ![c] =
                  [valid |-> pc[c] = "done", required |-> required[c], ret |-> ret[c]]]
    /\ before' = [before EXCEPT ![c] = store]
    /\ napplies' = [napplies EXCEPT ![c] = @ + 1]
    /\ UNCHANGED <<store, memo>>

\* ------------------------- SpecSeq: one caller, a consistent store, in turn
SeqInit ==
    /\ InitApplier
    /\ store \in [Names -> ObjsOrNil]
    /\ \A n \in Names : store[n] # NilObj => store[n].name = n

\* The caller applies one desired object, again and again.
SeqBegin ==
    /\ napplies[1] < MaxApplies
    /\ \E req \in Objs :
          /\ napplies[1] > 0 => req = required[1]
          /\ ClientBegin(1, req)

SeqGet == ClientGet(1)
SeqCreate == \E rejected \in BOOLEAN : ClientCreate(1, rejected)
SeqCompare == ClientCompare(1)
SeqUpdate == \E rejected \in BOOLEAN : ClientUpdate(1, rejected)

SeqNext == SeqBegin \/ SeqGet \/ SeqCreate \/ SeqCompare \/ SeqUpdate

SpecSeq == SeqInit /\ [][SeqNext]_vars

\* ------------------ SpecRace: concurrent callers applying the same object
RaceInit ==
    /\ InitApplier
    /\ store = [n \in Names |-> NilObj]

\* Each caller applies once, and all apply the same desired object.
RaceBegin(c) ==
    /\ napplies[c] = 0
    /\ \E req \in Objs :
          /\ \A d \in Callers : napplies[d] > 0 => required[d] = req
          /\ ClientBegin(c, req)

RaceNext ==
    \E c \in Callers :
        \/ RaceBegin(c)
        \/ ClientGet(c)
        \/ ClientCreate(c, FALSE)
        \/ ClientCompare(c)
        \/ ClientUpdate(c, FALSE)

SpecRace == RaceInit /\ [][RaceNext]_vars

\* ------------------------------------------------ reading an Apply's calls
CallIdx(c, op) == {i \in 1..Len(calls[c]) : calls[c][i].op = op}
NumCalls(c, op) == Cardinality(CallIdx(c, op))
HasCall(c, op) == CallIdx(c, op) # {}
TheCall(c, op) == calls[c][CHOOSE i \in CallIdx(c, op) : TRUE]
Done(c) == pc[c] = "done"

GetNotFound(c) == HasCall(c, "Get") /\ IsNotFound(TheCall(c, "Get").err)
GetFailedOtherwise(c) ==
    HasCall(c, "Get") /\ TheCall(c, "Get").err \notin {NoErr, ErrNotFound}
GetFound(c) ==
    HasCall(c, "Get") /\ TheCall(c, "Get").err = NoErr /\ TheCall(c, "Get").out \in Objs
CreateSucceeded(c) == HasCall(c, "Create") /\ TheCall(c, "Create").err = NoErr
CreateExists(c) == HasCall(c, "Create") /\ IsAlreadyExists(TheCall(c, "Create").err)
CreateFailedOtherwise(c) ==
    HasCall(c, "Create") /\ TheCall(c, "Create").err \notin {NoErr, ErrAlreadyExists}
CompareSame(c) == HasCall(c, "Compare") /\ TheCall(c, "Compare").err = "same"
CompareModified(c) == HasCall(c, "Compare") /\ TheCall(c, "Compare").err = "modified"
UpdateSucceeded(c) == HasCall(c, "Update") /\ TheCall(c, "Update").err = NoErr
UpdateFailed(c) == HasCall(c, "Update") /\ TheCall(c, "Update").err # NoErr

\* ------------------------------------------------------------------ claims

\* C1: when the getter returns an error that is not not-found, Apply returns
\* that same error, calls neither Create nor the comparator nor Update, and
\* emits no notification.
C1_FetchErrorReturned ==
    \A c \in Callers :
        (Done(c) /\ GetFailedOtherwise(c)) =>
            /\ ~HasCall(c, "Create")
            /\ ~HasCall(c, "Compare")
            /\ ~HasCall(c, "Update")
            /\ events[c] = <<>>
            /\ ret[c].err = TheCall(c, "Get").err

\* C2: when the getter reports not-found, Create is called exactly once with
\* the desired object and neither Update nor the comparator is called; when
\* that Create succeeds Apply emits one "<Kind>Created" notification and
\* returns (created object, changed=true, nil error).
C2_NotFoundCreates ==
    \A c \in Callers :
        GetNotFound(c) =>
            /\ ~HasCall(c, "Compare")
            /\ ~HasCall(c, "Update")
            /\ NumCalls(c, "Create") <= 1
            /\ Done(c) =>
                /\ NumCalls(c, "Create") = 1
                /\ TheCall(c, "Create").arg = required[c]
                /\ CreateSucceeded(c) =>
                    /\ events[c] = <<Event("Normal", kind \o "Created",
                                           TheCall(c, "Create").out)>>
                    /\ ret[c] = Result(TheCall(c, "Create").out, TRUE, NoErr)

C2_Witness ==
    \E c \in Callers :
        Done(c) /\ GetNotFound(c) /\ CreateSucceeded(c) /\ ret[c].obj \in Objs

\* C3: when the getter reports not-found and Create fails with already-exists,
\* Apply returns (the desired object, changed=false, nil error), emits no
\* notification and makes no further call; and already-exists on Create is
\* the only collaborator error that Apply turns into a nil error.
C3_OnlyAlreadyExistsAbsorbed ==
    \A c \in Callers :
        /\ (GetNotFound(c) /\ CreateExists(c)) =>
              /\ Done(c)
              /\ ret[c] = Result(required[c], FALSE, NoErr)
              /\ events[c] = <<>>
              /\ Len(calls[c]) = 2
        /\ (Done(c) /\ ret[c].err = NoErr) =>
              \A i \in 1..Len(calls[c]) :
                  \/ calls[c][i].op = "Compare"
                  \/ calls[c][i].err = NoErr
                  \/ calls[c][i].op = "Get" /\ IsNotFound(calls[c][i].err)
                  \/ calls[c][i].op = "Create" /\ IsAlreadyExists(calls[c][i].err)

\* C4: when the getter returns an existing object without error and the
\* comparator returns changed=false, neither Create nor Update is called, no
\* notification is emitted, and Apply returns (merged, changed=false, nil).
C4_UnchangedNoWrite ==
    \A c \in Callers :
        (GetFound(c) /\ CompareSame(c)) =>
            /\ ~HasCall(c, "Create")
            /\ ~HasCall(c, "Update")
            /\ events[c] = <<>>
            /\ Done(c)
            /\ ret[c] = Result(TheCall(c, "Compare").out, FALSE, NoErr)

C4_Witness ==
    \E c \in Callers :
        /\ Done(c) /\ GetFound(c) /\ CompareSame(c)
        /\ TheCall(c, "Compare").out \notin {required[c], existing[c]}

\* C5: when the getter returns an existing object and the comparator returns
\* changed=true, Update is called exactly once with the comparator's merged
\* object and Create is never called; when that Update succeeds Apply emits
\* one "<Kind>Updated" notification and returns (the object Update returned,
\* changed=true, nil error).
C5_ChangedUpdatesMerged ==
    \A c \in Callers :
        (GetFound(c) /\ CompareModified(c)) =>
            /\ ~HasCall(c, "Create")
            /\ NumCalls(c, "Update") <= 1
            /\ Done(c) =>
                /\ NumCalls(c, "Update") = 1
                /\ TheCall(c, "Update").arg = TheCall(c, "Compare").out
                /\ UpdateSucceeded(c) =>
                    /\ events[c] = <<Event("Normal", kind \o "Updated",
                                           TheCall(c, "Update").out)>>
                    /\ ret[c] = Result(TheCall(c, "Update").out, TRUE, NoErr)

C5_Witness ==
    \E c \in Callers :
        /\ Done(c) /\ GetFound(c) /\ CompareModified(c) /\ UpdateSucceeded(c)
        /\ TheCall(c, "Compare").out \notin {required[c], existing[c]}
        /\ TheCall(c, "Update").out # TheCall(c, "Update").arg

\* C6 as stated: when the getter reports not-found and Create fails with an
\* error other than already-exists, Apply emits one "<Kind>CreateFailed"
\* notification and returns (nil object, changed=true, that error), without
\* retrying Create and without calling Update.
C6_CreateFailureReturnsNil ==
    \A c \in Callers :
        (Done(c) /\ GetNotFound(c) /\ CreateFailedOtherwise(c)) =>
            /\ events[c] = <<Event("Warning", kind \o "CreateFailed", required[c])>>
            /\ ret[c] = Result(NilObj, TRUE, TheCall(c, "Create").err)
            /\ NumCalls(c, "Create") = 1
            /\ ~HasCall(c, "Update")

\* C6 amended: in that case Apply emits one "<Kind>CreateFailed" notification
\* and returns (the object Create returned beside its error, which need not
\* be nil, changed=true, that error), without retrying Create and without
\* calling Update.
C6_CreateFailureReturnsActual ==
    \A c \in Callers :
        (Done(c) /\ GetNotFound(c) /\ CreateFailedOtherwise(c)) =>
            /\ events[c] = <<Event("Warning", kind \o "CreateFailed", required[c])>>
            /\ ret[c] = Result(TheCall(c, "Create").out, TRUE, TheCall(c, "Create").err)
            /\ NumCalls(c, "Create") = 1
            /\ ~HasCall(c, "Update")

C6_Witness ==
    \E c \in Callers :
        /\ Done(c) /\ GetNotFound(c) /\ CreateFailedOtherwise(c)
        /\ ret[c].obj \in Objs

\* C7: when the comparator returns changed=true and Update fails, Apply emits
\* one "<Kind>UpdateFailed" notification and no "<Kind>Updated" one, returns
\* changed=true with the Update error unmodified, and neither calls Update a
\* second time nor falls back to Create.
C7_UpdateFailureSurfaced ==
    \A c \in Callers :
        (CompareModified(c) /\ UpdateFailed(c)) =>
            /\ Done(c)
            /\ events[c] = <<Event("Warning", kind \o "UpdateFailed", required[c])>>
            /\ ret[c].changed = TRUE
            /\ ret[c].err = TheCall(c, "Update").err
            /\ NumCalls(c, "Update") = 1
            /\ ~HasCall(c, "Create")

C7_Witness ==
    \E c \in Callers :
        /\ Done(c) /\ CompareModified(c) /\ UpdateFailed(c)
        /\ TheCall(c, "Update").err = ErrConflict

\* C10: an Apply that returns changed=false has had no Create or Update
\* succeed; an Apply in which a Create or Update succeeded returns
\* changed=true with a nil error; and each Apply makes at most one Get call
\* and at most one write call (Create or Update, never both).
C10_ChangedFlagSound ==
    \A c \in Callers :
        /\ NumCalls(c, "Get") <= 1
        /\ NumCalls(c, "Create") + NumCalls(c, "Update") <= 1
        /\ Done(c) =>
            /\ ret[c].changed = FALSE => ~CreateSucceeded(c) /\ ~UpdateSucceeded(c)
            /\ (CreateSucceeded(c) \/ UpdateSucceeded(c)) =>
                  ret[c].changed = TRUE /\ ret[c].err = NoErr

C10_Witness ==
    \E c \in Callers :
        Done(c) /\ GetFound(c) /\ UpdateSucceeded(c) /\ ret[c].changed = TRUE

\* The second of two consecutive Apply calls of the same desired object, the
\* first of which returned a nil error, has returned.
Reapplied(c) ==
    /\ Done(c)
    /\ prev[c].valid
    /\ prev[c].ret.err = NoErr
    /\ prev[c].required = required[c]

\* What C8 promises of that second Apply.
SecondApplyIsNoOp(c) ==
    /\ ~HasCall(c, "Create")
    /\ ~HasCall(c, "Update")
    /\ events[c] = <<>>
    /\ ret[c].changed = FALSE
    /\ ret[c].err = NoErr
    /\ store = before[c]

\* The comparator reports changed=false whenever the existing object already
\* equals the merged result it computes.
SameWhenMergedEqualsExisting == \A m \in memo : m.merged = m.existing => ~m.modified

\* The comparator reports changed=false for the desired object against the
\* object the first Apply left in the store.
SameOnWhatWasLeft(c) ==
    \A m \in memo :
        (m.required = required[c] /\ m.existing = before[c][required[c].name])
            => ~m.modified

\* C8 as stated: against a consistent store and a deterministic comparator
\* that reports changed=false when the existing object equals the merged
\* result, an Apply that follows an Apply of the same desired object that
\* returned a nil error calls neither Create nor Update, emits nothing,
\* returns changed=false with a nil error and leaves the store unchanged.
C8_IdempotentAsStated ==
    \A c \in Callers :
        (Reapplied(c) /\ SameWhenMergedEqualsExisting) => SecondApplyIsNoOp(c)

\* C8 amended: the same, for a deterministic comparator that reports
\* changed=false for the desired object against the object the first Apply
\* left in the store (the object it created, or the merged object it wrote).
C8_IdempotentOnFixpoint ==
    \A c \in Callers :
        (Reapplied(c) /\ SameOnWhatWasLeft(c)) => SecondApplyIsNoOp(c)

C8_Witness ==
    \E c \in Callers :
        /\ Reapplied(c) /\ SameOnWhatWasLeft(c)
        /\ prev[c].ret.changed = TRUE
        /\ CompareSame(c)

AllReturned == \A c \in Callers : Done(c)

\* The comparator reports no change for an existing object equal to the
\* desired one.
SameOnDesired == \A m \in memo : m.existing = m.required => ~m.modified

\* C9: when callers apply the same desired object concurrently, the name is
\* absent at first, Create is atomic and fails with already-exists when the
\* name is present, and the comparator reports no change for an existing
\* object equal to the desired one, then in every interleaving no call
\* returns an error, exactly one returns changed=true, exactly one
\* "<Kind>Created" notification is emitted, and the store ends holding
\* exactly one object of that name.
C9_ConcurrentCreateOnce ==
    (AllReturned /\ SameOnDesired) =>
        /\ \A c \in Callers : ret[c].err = NoErr
        /\ Cardinality({c \in Callers : ret[c].changed}) = 1
        /\ Cardinality({c \in Callers : events[c] # <<>>}) = 1
        /\ \A c \in Callers :
              events[c] # <<>> =>
                  events[c] = <<Event("Normal", kind \o "Created", required[c])>>
        /\ \A c \in Callers : store[required[c].name] = required[c]
        /\ \A n \in Names : (\A c \in Callers : n # required[c].name) => store[n] = NilObj

C9_Witness ==
    /\ AllReturned
    /\ SameOnDesired
    /\ \E c \in Callers : CreateExists(c)
    /\ \E c \in Callers : CreateSucceeded(c)

====
